---- MODULE Spec2Model ----
(***************************************************************************)
(* Model of snippets/views.py: the request handlers of the snippet-sharing *)
(* application, over the Snippet table, the session of one client and the  *)
(* response of the last request.                                           *)
(***************************************************************************)
EXTENDS Integers, Sequences, FiniteSets

\* Number of rows the Snippet table ever receives (ids are never reused).
MaxSnippets == 2

\* Rows of the User table (auth.User), by username.
Users == {"ana", "beto"}
\* Usernames a request can name; "nadie" has no row.
Usernames == Users \cup {"nadie"}
\* request.user of a request without a session.
Anonymous == "AnonymousUser"
\* Rows of the Language table, by slug; "pseudocode" has no pygments lexer.
Languages == {"python", "pseudocode"}
\* Slugs a request can name; "cobol" has no row.
Slugs == Languages \cup {"cobol"}
\* Snippet texts a form can carry; "" is the empty, rejected text.
Contents == {"print(1)"}
\* Ids a request can name: every id ever stored and one that never is.
Ids == 1..(MaxSnippets + 1)
\* Passwords a login POST can carry.
Passwords == {"clave_ana", "clave_beto"}
\* The credentials the auth backend holds.
Credentials == [u \in Users |-> IF u = "ana" THEN "clave_ana" ELSE "clave_beto"]
\* request.POST of the snippet form.
FormData == [snippet : Contents \cup {""}, language : Languages, public : BOOLEAN]
\* Lexers pygments resolves by name.
KnownLexers == {"python", "text"}

VARIABLES
    snippets,   \* the Snippet table: records id, user, language, snippet, public
    nextId,     \* the next AutoField id
    session,    \* request.user of the client: a username or Anonymous
    response    \* the request just handled and the response to it

vars == <<snippets, nextId, session, response>>

NoCode == [lexer |-> "", text |-> ""]

\* The request being handled, with an empty response.
Request(view, method, id, username, language) ==
    [view |-> view, method |-> method, user |-> session, id |-> id,
     username |-> username, language |-> language,
     status |-> "", target |-> "",
     snippets |-> {}, snippets_list |-> <<>>, snippet |-> {}, form |-> {},
     code |-> NoCode]

render(r, template) == [r EXCEPT !.status = "render", !.target = template]
redirect(r, to) == [r EXCEPT !.status = "redirect", !.target = to]
Http404(r) == [r EXCEPT !.status = "404"]
ServerError(r) == [r EXCEPT !.status = "500"]

SnippetIds(table) == {s.id : s \in table}
\* Snippet.objects lookup by id: the set of matching rows (at most one).
ById(table, id) == {s \in table : s.id = id}
\* The orders in which a queryset without ordering can yield its rows.
Orderings(S) ==
    {f \in [1..Cardinality(S) -> S] : \A i, j \in 1..Cardinality(S) : i # j => f[i] # f[j]}

\* SnippetForm.is_valid(): the snippet text is required.
is_valid(data) == data.snippet # ""
\* SnippetForm.save(): the form's fields written onto the instance.
form_save(instance, data) ==
    [instance EXCEPT !.snippet = data.snippet, !.language = data.language,
                     !.public = data.public]
\* str(snippet.language)
LanguageStr(language) == language
\* authenticate(): the user whose credentials match, or no user.
authenticate(username, password) ==
    {u \in Users : u = username /\ Credentials[u] = password}

Init ==
    /\ snippets = {}
    /\ nextId = 1
    /\ session = Anonymous
    /\ response = Request("", "", 0, "", "")

\* LoginRequiredMixin.dispatch: a request whose user is not authenticated never
\* reaches get or post.
NotAuthenticated(user) == user = Anonymous

\* LoginRequiredMixin.handle_no_permission: the request is sent to login_url.
LoginRequired(r) ==
    /\ response' = redirect(r, "login")
    /\ UNCHANGED <<snippets, nextId, session>>

SnippetAdd_get ==
    LET r == Request("SnippetAdd", "GET", 0, "", "") IN
    \/ /\ NotAuthenticated(session)
       /\ LoginRequired(r)
    \/ /\ ~NotAuthenticated(session)
       /\ response' = render(r, "snippets/snippet_add.html")
       /\ UNCHANGED <<snippets, nextId, session>>

\* SnippetAdd.post with the owner taken from somewhere other than request.user.
SnippetAdd_post_WrongOwner(data) ==
    LET r == Request("SnippetAdd", "POST", 0, "", "") IN
    \/ /\ NotAuthenticated(session)
       /\ LoginRequired(r)
    \/ /\ ~NotAuthenticated(session)
       /\ IF is_valid(data)
          THEN /\ nextId <= MaxSnippets
               /\ \E u \in Users \ {session} :
                     snippets' = snippets \cup
                        {[id |-> nextId, user |-> u, language |-> data.language,
                          snippet |-> data.snippet, public |-> data.public]}
               /\ nextId' = nextId + 1
               /\ response' = redirect(r, "index")
          ELSE /\ response' = render(r, "snippets/snippet_add.html")
               /\ UNCHANGED <<snippets, nextId>>
       /\ UNCHANGED session

SnippetAdd_post(data) ==
    LET r == Request("SnippetAdd", "POST", 0, "", "") IN
    \/ /\ NotAuthenticated(session)
       /\ LoginRequired(r)
    \/ /\ ~NotAuthenticated(session)
       /\ IF is_valid(data)
          THEN /\ nextId <= MaxSnippets
               /\ snippets' = snippets \cup
                     {[id |-> nextId, user |-> session, language |-> data.language,
                       snippet |-> data.snippet, public |-> data.public]}
               /\ nextId' = nextId + 1
               /\ response' = redirect(r, "index")
          ELSE /\ response' = render(r, "snippets/snippet_add.html")
               /\ UNCHANGED <<snippets, nextId>>
       /\ UNCHANGED session

SnippetEdit_get(id) ==
    LET r == Request("SnippetEdit", "GET", id, "", "") IN
    \/ /\ NotAuthenticated(session)
       /\ LoginRequired(r)
    \/ /\ ~NotAuthenticated(session)
       /\ IF ById(snippets, id) = {}
          THEN response' = Http404(r)
          ELSE response' = [render(r, "snippets/snippet_add.html")
                                EXCEPT !.form = ById(snippets, id)]
       /\ UNCHANGED <<snippets, nextId, session>>

SnippetEdit_post(id, data) ==
    LET r == Request("SnippetEdit", "POST", id, "", "") IN
    \/ /\ NotAuthenticated(session)
       /\ LoginRequired(r)
    \/ /\ ~NotAuthenticated(session)
       /\ IF ById(snippets, id) = {}
          THEN /\ response' = Http404(r)
               /\ UNCHANGED snippets
          ELSE IF is_valid(data)
          THEN /\ snippets' = (snippets \ ById(snippets, id)) \cup
                                 {form_save(s, data) : s \in ById(snippets, id)}
               /\ response' = redirect(r, "index")
          ELSE /\ response' = [render(r, "snippets/snippet_add.html")
                                  EXCEPT !.form = ById(snippets, id)]
               /\ UNCHANGED snippets
       /\ UNCHANGED <<nextId, session>>

SnippetDelete_get(id) ==
    LET r == Request("SnippetDelete", "GET", id, "", "") IN
    \/ /\ NotAuthenticated(session)
       /\ LoginRequired(r)
    \/ /\ ~NotAuthenticated(session)
       /\ response' = render(r, "snippets/snippet_add.html")
       /\ UNCHANGED <<snippets, nextId, session>>

\* SnippetDelete.post without the comparison of snippet.user and request.user.
SnippetDelete_post_NoOwnerCheck(id) ==
    LET r == Request("SnippetDelete", "POST", id, "", "") IN
    \/ /\ NotAuthenticated(session)
       /\ LoginRequired(r)
    \/ /\ ~NotAuthenticated(session)
       /\ IF ById(snippets, id) = {}
          THEN /\ response' = Http404(r)
               /\ UNCHANGED snippets
          ELSE /\ snippets' = {s \in snippets : s.id # id}
               /\ response' = redirect(r, "index")
       /\ UNCHANGED <<nextId, session>>

SnippetDelete_post(id) ==
    LET r == Request("SnippetDelete", "POST", id, "", "") IN
    \/ /\ NotAuthenticated(session)
       /\ LoginRequired(r)
    \/ /\ ~NotAuthenticated(session)
       /\ IF ById(snippets, id) = {}
          THEN /\ response' = Http404(r)
               /\ UNCHANGED snippets
          ELSE /\ snippets' = {s \in snippets : ~(s.id = id /\ s.user = session)}
               /\ response' = redirect(r, "index")
       /\ UNCHANGED <<nextId, session>>

\* get_lexer_by_name with the fallback to the "text" lexer, and highlight().
Highlight(snippet) ==
    [lexer |-> IF LanguageStr(snippet.language) \in KnownLexers
               THEN LanguageStr(snippet.language) ELSE "text",
     text |-> snippet.snippet]

SnippetDetails_get(id) ==
    LET r == Request("SnippetDetails", "GET", id, "", "") IN
    /\ IF ById(snippets, id) = {}
       THEN response' = ServerError(r)
       ELSE \E s \in ById(snippets, id) :
               response' = [render(r, "snippets/snippet.html")
                               EXCEPT !.snippet = {s}, !.code = Highlight(s)]
    /\ UNCHANGED <<snippets, nextId, session>>

\* UserSnippets.get with the anonymous branch selecting every row of the user.
UserSnippetsQuery_AnonymousAll(user, usuario) ==
    IF user = Anonymous
    THEN {s \in snippets : s.user = usuario}
    ELSE IF user = usuario
    THEN {s \in snippets : s.user = usuario}
    ELSE {s \in snippets : s.user = usuario /\ s.public}

\* The queryset UserSnippets.get selects for request.user and the user looked up.
UserSnippetsQuery(user, usuario) ==
    IF user = Anonymous
    THEN {s \in snippets : s.user = usuario /\ s.public}
    ELSE IF user = usuario
    THEN {s \in snippets : s.user = usuario}
    ELSE {s \in snippets : s.user = usuario /\ s.public}

UserSnippets_get(username) ==
    LET r == Request("UserSnippets", "GET", 0, username, "") IN
    /\ IF username \notin Users
       THEN response' = Http404(r)
       ELSE response' = [render(r, "snippets/user_snippets.html")
                            EXCEPT !.snippets = UserSnippetsQuery(session, username)]
    /\ UNCHANGED <<snippets, nextId, session>>

\* SnippetsByLanguage.get with the authenticated branch selecting every row of
\* the language.
SnippetsByLanguageQuery_AllRows(user, language) ==
    IF user = Anonymous
    THEN {s \in snippets : s.language = language /\ s.public}
    ELSE {s \in snippets : s.language = language}

\* The queryset SnippetsByLanguage.get selects for request.user and the language.
SnippetsByLanguageQuery(user, language) ==
    IF user = Anonymous
    THEN {s \in snippets : s.language = language /\ s.public}
    ELSE {s \in snippets : s.language = language /\ s.public}
            \cup {s \in snippets : s.language = language /\ s.user = user}

SnippetsByLanguage_get(language) ==
    LET r == Request("SnippetsByLanguage", "GET", 0, "", language) IN
    /\ IF language \notin Languages
       THEN response' = Http404(r)
       ELSE response' = [render(r, "index.html")
                            EXCEPT !.snippets = SnippetsByLanguageQuery(session, language)]
    /\ UNCHANGED <<snippets, nextId, session>>

Login_get ==
    /\ response' = render(Request("Login", "GET", 0, "", ""), "login.html")
    /\ UNCHANGED <<snippets, nextId, session>>

Login_post(username, password) ==
    LET r == Request("Login", "POST", 0, username, "") IN
    /\ IF authenticate(username, password) = {}
       THEN /\ response' = render(r, "login.html")
            /\ UNCHANGED session
       ELSE /\ session' \in authenticate(username, password)
            /\ response' = redirect(r, "index")
    /\ UNCHANGED <<snippets, nextId>>

\* Logout.get without the call of logout(request).
Logout_get_KeepsSession ==
    /\ response' = redirect(Request("Logout", "GET", 0, "", ""), "index")
    /\ UNCHANGED <<snippets, nextId, session>>

Logout_get ==
    /\ session' = Anonymous
    /\ response' = redirect(Request("Logout", "GET", 0, "", ""), "index")
    /\ UNCHANGED <<snippets, nextId>>

\* Index.get with snippets_user left at the empty list.
IndexUserSnippets_Empty(user) == {}

\* request.user.snippet_set.all() of an authenticated user, else the empty list.
IndexUserSnippets(user) ==
    IF user # Anonymous THEN {s \in snippets : s.user = user} ELSE {}

\* Index.get appending every public snippet, without the test on snippet_ids.
IndexAppended_NoDedup(user) == {s \in snippets : s.public}

\* The public snippets Index.get appends: those whose id is not in snippet_ids.
IndexAppended(user) ==
    {s \in snippets : s.public /\ s.id \notin SnippetIds(IndexUserSnippets(user))}

Index_get ==
    LET r == Request("Index", "GET", 0, "", "") IN
    /\ \E own \in Orderings(IndexUserSnippets(session)) :
         \E publics \in Orderings(IndexAppended(session)) :
            response' = [render(r, "index.html") EXCEPT !.snippets_list = own \o publics]
    /\ UNCHANGED <<snippets, nextId, session>>

Next ==
    \/ SnippetAdd_get
    \/ \E data \in FormData : SnippetAdd_post(data)
    \/ \E id \in Ids : SnippetEdit_get(id)
    \/ \E id \in Ids, data \in FormData : SnippetEdit_post(id, data)
    \/ \E id \in Ids : SnippetDelete_get(id)
    \/ \E id \in Ids : SnippetDelete_post(id)
    \/ \E id \in Ids : SnippetDetails_get(id)
    \/ \E username \in Usernames : UserSnippets_get(username)
    \/ \E language \in Slugs : SnippetsByLanguage_get(language)
    \/ Login_get
    \/ \E username \in Usernames, password \in Passwords : Login_post(username, password)
    \/ Logout_get
    \/ Index_get

Spec == Init /\ [][Next]_vars

-----------------------------------------------------------------------------
(* Properties of the handlers *)

Range(seq) == {seq[i] : i \in 1..Len(seq)}
Listings == {"Index", "UserSnippets", "SnippetsByLanguage"}
\* The rows a listing response carries in its "snippets" context entry.
Listed == response.snippets \cup Range(response.snippets_list)
Own(table, user) == {s \in table : s.user = user}
PublicOfOthers(table, user) == {s \in table : s.public /\ s.user # user}

\* C1: no listing (home, user/{username}, language/{slug}) answered to an
\* anonymous viewer contains a snippet whose public flag is false.
C1_AnonymousListingsPublic ==
    (response.user = Anonymous /\ response.view \in Listings)
        => \A s \in Listed : s.public

\* C1 witness: an anonymous viewer was shown the listing of a user who has a
\* private snippet, and the listing is not empty.
C1_Witness ==
    /\ response.user = Anonymous
    /\ response.view = "UserSnippets"
    /\ response.status = "render"
    /\ response.snippets # {}
    /\ \E s \in snippets : s.user = response.username /\ ~s.public

\* C2 (as claimed): a valid edit POST by an authenticated user on the id of a
\* snippet owned by somebody else leaves that snippet unchanged.
C2_EditOnlyByOwner ==
    [][\A id \in Ids, data \in FormData :
          (SnippetEdit_post(id, data) /\ session \in Users /\ is_valid(data))
              => \A s \in snippets : (s.id = id /\ s.user # session) => s \in snippets']_vars

\* C3: a delete POST on an existing id by an authenticated non-owner leaves the
\* table unchanged and redirects to index; a row leaves the table only in a
\* delete POST on its id by its owner, which removes that row and no other.
C3_DeleteOnlyByOwner ==
    [][/\ \A id \in Ids :
            (/\ response'.view = "SnippetDelete"
             /\ SnippetDelete_post(id)
             /\ session \in Users
             /\ \E s \in ById(snippets, id) : s.user # session)
                => (/\ snippets' = snippets
                    /\ response'.status = "redirect"
                    /\ response'.target = "index")
       /\ \A s \in snippets :
            s.id \notin SnippetIds(snippets')
                => (/\ SnippetDelete_post(s.id)
                    /\ s.user = session
                    /\ snippets' = snippets \ {s})]_vars

\* C3 witness: a delete POST by a non-owner was answered with the redirect to
\* index and the snippet is still stored.
C3_Witness ==
    /\ response.view = "SnippetDelete"
    /\ response.method = "POST"
    /\ response.status = "redirect"
    /\ response.target = "index"
    /\ \E s \in snippets : s.id = response.id /\ s.user # response.user

\* C4 (as claimed): in every view that renders snippets, the detail view
\* included, a snippet with public = false is rendered only to its owner.
C4_PrivateOnlyToOwner ==
    response.status = "render"
        => \A s \in Listed \cup response.snippet : ~s.public => s.user = response.user

\* C5: no listing answered to an authenticated viewer V (the user/{username}
\* listing for a user other than V) contains a private snippet of another user,
\* and the language listing is exactly the public snippets of the language
\* together with V's own snippets of the language.
C5_AuthenticatedListings ==
    (response.user \in Users /\ response.status = "render")
        => /\ response.view = "Index"
                => \A s \in Listed : s.public \/ s.user = response.user
           /\ (response.view = "UserSnippets" /\ response.username # response.user)
                => \A s \in Listed : s.public \/ s.user = response.user
           /\ response.view = "SnippetsByLanguage"
                => response.snippets =
                      {s \in snippets : /\ s.language = response.language
                                        /\ (s.public \/ s.user = response.user)}

\* C5 witness: an authenticated viewer was shown a language listing while the
\* language has a private snippet of the viewer and a private one of another user.
C5_Witness ==
    /\ response.user \in Users
    /\ response.view = "SnippetsByLanguage"
    /\ response.status = "render"
    /\ \E s \in snippets :
          s.language = response.language /\ ~s.public /\ s.user = response.user
    /\ \E s \in snippets :
          s.language = response.language /\ ~s.public /\ s.user # response.user

\* C6: every snippet of the viewer, whatever its public flag, is in the viewer's
\* own user/{username} listing, in the home view and in the listing of the
\* snippet's language.
C6_OwnerSeesOwn ==
    (response.user \in Users /\ response.status = "render")
        => \A s \in Own(snippets, response.user) :
              /\ response.view = "Index" => s \in Listed
              /\ (response.view = "UserSnippets" /\ response.username = response.user)
                    => s \in Listed
              /\ (response.view = "SnippetsByLanguage" /\ response.language = s.language)
                    => s \in Listed

\* C6 witness: the home view was answered to a viewer who owns a private snippet.
C6_Witness ==
    /\ response.user \in Users
    /\ response.view = "Index"
    /\ response.status = "render"
    /\ \E s \in Own(snippets, response.user) : ~s.public

\* C7: an add POST with valid input by an authenticated user stores exactly one
\* new snippet, owned by that user, and leaves every stored snippet as it was;
\* an add POST with invalid input stores nothing.
C7_AddStoresOne ==
    [][\A data \in FormData :
          (response'.view = "SnippetAdd" /\ SnippetAdd_post(data) /\ session \in Users)
              => IF is_valid(data)
                 THEN /\ \E n \in snippets' :
                           /\ n.id \notin SnippetIds(snippets)
                           /\ n.user = session
                           /\ snippets' = snippets \cup {n}
                      /\ Cardinality(Own(snippets', session))
                            = Cardinality(Own(snippets, session)) + 1
                      /\ \A u \in Users \ {session} : Own(snippets', u) = Own(snippets, u)
                 ELSE snippets' = snippets]_vars

\* C7 witness: a valid add POST was answered while another snippet was already
\* stored, and the newest snippet is the requester's.
C7_Witness ==
    /\ response.view = "SnippetAdd"
    /\ response.method = "POST"
    /\ response.status = "redirect"
    /\ response.target = "index"
    /\ Cardinality(snippets) = 2
    /\ \E s \in snippets : s.id = nextId - 1 /\ s.user = response.user

NoDuplicateIds(seq) == \A i, j \in 1..Len(seq) : i # j => seq[i].id # seq[j].id

\* C8 (as claimed): the home view of an authenticated user who has N private
\* snippets, with M public snippets of other users, has N + M entries and no id
\* twice.
C8_HomeCountsPrivate ==
    (response.user \in Users /\ response.view = "Index" /\ response.status = "render")
        => /\ Len(response.snippets_list) =
                 Cardinality({s \in Own(snippets, response.user) : ~s.public})
                    + Cardinality(PublicOfOthers(snippets, response.user))
           /\ NoDuplicateIds(response.snippets_list)

\* C8 (amended): the home view of an authenticated user who owns N snippets,
\* private or public, with M public snippets of other users, has N + M entries
\* and no id twice.
C8_HomeCountsOwn ==
    (response.user \in Users /\ response.view = "Index" /\ response.status = "render")
        => /\ Len(response.snippets_list) =
                 Cardinality(Own(snippets, response.user))
                    + Cardinality(PublicOfOthers(snippets, response.user))
           /\ NoDuplicateIds(response.snippets_list)

\* C8 witness: the home view was answered to a viewer who owns a public snippet
\* while another user has a public snippet.
C8_Witness ==
    /\ response.user \in Users
    /\ response.view = "Index"
    /\ response.status = "render"
    /\ \E s \in Own(snippets, response.user) : s.public
    /\ PublicOfOthers(snippets, response.user) # {}

\* A request that looks up an identifier no row has.
MissingLookup ==
    \/ \E id \in Ids \ SnippetIds(snippets) :
          /\ session \in Users
          /\ \/ SnippetEdit_get(id)
             \/ \E data \in FormData : SnippetEdit_post(id, data)
             \/ SnippetDelete_post(id)
    \/ \E id \in Ids \ SnippetIds(snippets) : SnippetDetails_get(id)
    \/ \E username \in Usernames \ Users : UserSnippets_get(username)
    \/ \E language \in Slugs \ Languages : SnippetsByLanguage_get(language)

\* C9 (as claimed): every lookup by a missing snippet id, username or slug is
\* answered with not-found and leaves the table unchanged.
C9_MissingIsNotFound ==
    [][MissingLookup => (response'.status = "404" /\ snippets' = snippets)]_vars

\* C10: the table changes only in a step made under a session; a login POST
\* with bad credentials leaves the session as it was, a logout leaves no
\* session, and an add, edit or delete POST of an anonymous requester leaves
\* the table unchanged.
C10_MutationNeedsSession ==
    [][/\ snippets' # snippets => (session \in Users /\ session' = session)
       /\ \A username \in Usernames, password \in Passwords :
             (/\ response'.view = "Login"
              /\ Login_post(username, password)
              /\ authenticate(username, password) = {})
                 => (session' = session /\ snippets' = snippets)
       /\ Logout_get => session' = Anonymous
       /\ (/\ session = Anonymous
           /\ response'.view \in {"SnippetAdd", "SnippetEdit", "SnippetDelete"}
           /\ response'.method = "POST")
              => (/\ snippets' = snippets
                  /\ response'.status = "redirect"
                  /\ response'.target = "login")]_vars

\* C10 witness: an add POST of a requester whose session has ended was sent to
\* login while snippets are stored.
C10_Witness ==
    /\ response.view = "SnippetAdd"
    /\ response.method = "POST"
    /\ response.user = Anonymous
    /\ response.status = "redirect"
    /\ response.target = "login"
    /\ session = Anonymous
    /\ snippets # {}

====
